---- MODULE Spec2Model ----
(***************************************************************************)
(* A state-machine model of the shelflife backend: the credential store    *)
(* with its password-reset token lifecycle (authService, userService,      *)
(* User model, email utility) and the ownership-scoped shelf/book store    *)
(* (shelfController, shelfService, Shelf model, bookService).              *)
(*                                                                         *)
(* Strings the code treats as opaque bytes (passwords, hashes, tokens) are *)
(* sequences of naturals: a plaintext password is <<p>>, a reset token is  *)
(* <<t>>; a hash prefixes the hashed value, so hashing is never the        *)
(* identity and hashing twice differs from hashing once.                   *)
(***************************************************************************)
EXTENDS Integers, Sequences, FiniteSets, TLC

VARIABLES
    users,      \* the users collection: a sequence of documents, _id = index
    pending,    \* the signups between their findOne and their save
    now,        \* Date.now(), in milliseconds since the process started
    rng,        \* how many values crypto.randomBytes has produced
    mailbox,    \* the mails the SMTP transport accepted: {[to, token, at]}
    consumed,   \* the reset tokens a caller has presented successfully
    shelves,    \* the shelves collection: shelf _id -> document
    books,      \* the books collection: book _id -> document
    nextShelf,  \* how many shelf _ids have been allocated
    nextBook,   \* how many book _ids have been allocated
    deleting,   \* the deleteShelf calls between their two store calls
    adding,     \* the addBookToShelf calls between their findById and their save
    resp        \* the last request and the response the caller received

vars ==
    <<users, pending, now, rng, mailbox, consumed, shelves, books, nextShelf, nextBook,
      deleting, adding, resp>>

authVars == <<users, pending, now, rng, mailbox, consumed>>
shelfVars == <<shelves, books, nextShelf, nextBook, deleting, adding>>

(***************************************************************************)
(* Bounds of the model.                                                    *)
(***************************************************************************)
NumNames == 2
NumPasswords == 2
NumSalts == 1
MaxTokens == 2
MaxTicks == 3
MaxShelves == 2
MaxBooks == 2
MaxPending == 2
MaxDeleting == 1
MaxAdding == 2

Usernames == 1..NumNames
Emails == 1..NumNames
Passwords == {<<p>> : p \in 1..NumPasswords}
Salts == 1..NumSalts
Tokens == {<<t>> : t \in 1..MaxTokens}
BookIds == 1..MaxBooks

(***************************************************************************)
(* Program constants.                                                      *)
(***************************************************************************)
ResetTokenTTL == 3600000
TickStep == ResetTokenTTL \div 2

\* An absent (undefined) optional field of a document.
Absent == <<>>

(***************************************************************************)
(* bcrypt and sha256.                                                      *)
(***************************************************************************)
\* bcrypt.hash(data, salt): the salt is part of the result.
BcryptHash(data, salt) == <<0, salt>> \o data

\* bcrypt.compare(data, encrypted): re-hash data under encrypted's salt.
BcryptCompare(data, encrypted) ==
    /\ Len(encrypted) >= 2
    /\ encrypted[1] = 0
    /\ BcryptHash(data, encrypted[2]) = encrypted

\* crypto.createHash("sha256").update(token).digest("hex")
Sha256SameDigest(token) == <<0>>
Sha256(token) == <<0>> \o token

(***************************************************************************)
(* The User model.                                                         *)
(***************************************************************************)
\* The default of userSchema.profilePicture.
ModelDefaultPicture == "https://images.pexels.com/photos/1697912/pexels-photo-1697912.jpeg"

\* The default authService.signup passes when the request has no picture.
SignupDefaultPicture == "https://example.com/default-profile-pic.jpg"

\* A picture a client supplies.
ClientPicture == "https://client.example/me.png"

\* No picture supplied (undefined).
NoPicture == ""

\* The default of userSchema.roles: the path is an array, whose default is
\* the empty array; default: 'user' is an option of its elements.
DefaultRoles == <<>>

\* The defaults of userSchema.settings.
DefaultSettings == [notificationsEnabled |-> TRUE, emailPreference |-> "weekly"]

\* new User({username, email, password, profilePicture}): the schema
\* defaults fill the paths that are not given.
NewUser(username, email, password, profilePicture) ==
    [username |-> username, email |-> email, password |-> password,
     profilePicture |-> IF profilePicture = NoPicture THEN ModelDefaultPicture
                        ELSE profilePicture,
     roles |-> DefaultRoles,
     settings |-> DefaultSettings,
     passwordResetToken |-> Absent, passwordResetExpires |-> Absent]

\* userSchema.pre('save'): hash the password when it has been modified.
PreSaveUserAlways(doc, passwordModified, salt) ==
    [doc EXCEPT !.password = BcryptHash(doc.password, salt)]
PreSaveUser(doc, passwordModified, salt) ==
    IF ~passwordModified THEN doc
    ELSE [doc EXCEPT !.password = BcryptHash(doc.password, salt)]

\* User.findOne({ email }): the first matching document's _id, 0 for none.
FindUserByEmail(us, email) ==
    LET m == {i \in DOMAIN us : us[i].email = email}
    IN IF m = {} THEN 0 ELSE CHOOSE i \in m : \A j \in m : i <= j

\* The unique indexes on username and email: another document than id
\* already holds the username or the email.
UniqueIndexViolated(us, id, username, email) ==
    \E i \in DOMAIN us : i # id /\ (us[i].username = username \/ us[i].email = email)

\* The insert of a new document into the users collection.
InsertUserNoIndex(us, doc) ==
    [error |-> "", users |-> Append(us, doc), id |-> Len(us) + 1]
InsertUser(us, doc) ==
    IF UniqueIndexViolated(us, 0, doc.username, doc.email)
    THEN [error |-> "E11000 duplicate key error", users |-> us, id |-> 0]
    ELSE [error |-> "", users |-> Append(us, doc), id |-> Len(us) + 1]

\* newUser.save(): the pre('save') hook, then the insert.
SaveNewUser(us, newUser, salt) == InsertUser(us, PreSaveUser(newUser, TRUE, salt))

(***************************************************************************)
(* authService.                                                            *)
(***************************************************************************)
\* authService.signup: the error thrown ("" for none), the users collection
\* afterwards and the new user's _id.
SignupOutcome(us, username, email, password, profilePicture, salt1, salt2) ==
    IF \E i \in DOMAIN us : us[i].email = email \/ us[i].username = username
    THEN [error |-> "Email or username is already in use", users |-> us, id |-> 0]
    ELSE LET hashedPassword == BcryptHash(password, salt1)
             newUser == NewUser(username, email, hashedPassword,
                                IF profilePicture = NoPicture THEN SignupDefaultPicture
                                ELSE profilePicture)
         IN SaveNewUser(us, newUser, salt2)

\* authService.login: the error thrown ("" for none) and the subject of the
\* token issued (0 for none).
LoginLeaky(us, email, password) ==
    LET id == FindUserByEmail(us, email)
    IN IF id = 0 THEN [error |-> "User not found", sub |-> 0]
       ELSE IF ~BcryptCompare(password, us[id].password)
            THEN [error |-> "Invalid credentials", sub |-> 0]
            ELSE [error |-> "", sub |-> id]
LoginOutcome(us, email, password) ==
    LET id == FindUserByEmail(us, email)
    IN IF id = 0 THEN [error |-> "Invalid credentials", sub |-> 0]
       ELSE IF ~BcryptCompare(password, us[id].password)
            THEN [error |-> "Invalid credentials", sub |-> 0]
            ELSE [error |-> "", sub |-> id]

(***************************************************************************)
(* Session tokens and the authentication gate.                             *)
(***************************************************************************)
\* expiresIn: '1h', in the seconds of a JWT NumericDate.
JwtExpiresIn == 3600

\* process.env.JWT_SECRET
JwtSecret == "JWT_SECRET"

\* The keys a token can be signed with: the server's and anybody else's.
JwtKeys == {JwtSecret, "forged"}

\* Math.floor(Date.now() / 1000): the clock as jsonwebtoken reads it.
JwtSeconds(t) == t \div 1000

\* A request without an Authorization header.
NoJwt == [kind |-> "none", sub |-> 0, iat |-> 0, exp |-> 0, key |-> ""]

\* A bearer token that is not a JWT.
MalformedJwt == [kind |-> "malformed", sub |-> 0, iat |-> 0, exp |-> 0, key |-> ""]

\* jwt.sign({ sub }, key, { expiresIn: '1h' }) at time t.
JwtSign(sub, key, t) ==
    [kind |-> "jwt", sub |-> sub, iat |-> JwtSeconds(t),
     exp |-> JwtSeconds(t) + JwtExpiresIn, key |-> key]

\* The extraction and jwt.verify of passport-jwt at time t: the message of
\* the failure, "" when the token verifies.
JwtVerifyLate(token, key, t) ==
    IF token.kind = "none" THEN "No auth token"
    ELSE IF token.kind = "malformed" THEN "jwt malformed"
    ELSE IF token.key # key THEN "invalid signature"
    ELSE IF JwtSeconds(t) > token.exp THEN "jwt expired"
    ELSE ""
JwtVerify(token, key, t) ==
    IF token.kind = "none" THEN "No auth token"
    ELSE IF token.kind = "malformed" THEN "jwt malformed"
    ELSE IF token.key # key THEN "invalid signature"
    ELSE IF JwtSeconds(t) >= token.exp THEN "jwt expired"
    ELSE ""

\* The JwtStrategy of config/auth.js: the user handed to the callback of
\* passport.authenticate (0 for false) and the info that comes with it.
JwtStrategyOutcome(token, t, us) ==
    LET failure == JwtVerify(token, JwtSecret, t)
    IN IF failure # "" THEN [user |-> 0, info |-> failure]
       ELSE IF token.sub \notin DOMAIN us THEN [user |-> 0, info |-> "User not found"]
       ELSE [user |-> token.sub, info |-> ""]

\* The two definitions of authenticateJWT the repository holds.
GateVariants == {"authMiddleware.js:5", "shelves.js:108"}

\* authenticateJWT: the response sent (status 0 for none), the user attached
\* to the request, whether next() runs the handler, and the line logged.
AuthenticateJWT(variant, token, t, us) ==
    LET auth == JwtStrategyOutcome(token, t, us)
    IN IF auth.user = 0
       THEN IF variant = "authMiddleware.js:5"
            THEN [status |-> 401, message |-> "Unauthorized", detail |-> "",
                  user |-> 0, next |-> FALSE, log |-> auth.info]
            ELSE [status |-> 401, message |-> "Unauthorized. Please log in.",
                  detail |-> auth.info,
                  user |-> 0, next |-> FALSE, log |-> auth.info]
       ELSE [status |-> 0, message |-> "", detail |-> "",
             user |-> auth.user, next |-> TRUE, log |-> ""]

(***************************************************************************)
(* userService: the password-reset token lifecycle.                        *)
(***************************************************************************)
\* The query of resetPassword: passwordResetToken equals the hash and
\* passwordResetExpires is later than Date.now().
ResetTokenMatchesNotStrict(doc, hashedToken, t) ==
    /\ doc.passwordResetToken = hashedToken
    /\ Len(doc.passwordResetExpires) = 1
    /\ doc.passwordResetExpires[1] >= t
ResetTokenMatches(doc, hashedToken, t) ==
    /\ doc.passwordResetToken = hashedToken
    /\ Len(doc.passwordResetExpires) = 1
    /\ doc.passwordResetExpires[1] > t

\* User.findOne of resetPassword: the first matching _id, 0 for none.
FindUserByResetToken(us, hashedToken, t) ==
    LET m == {i \in DOMAIN us : ResetTokenMatches(us[i], hashedToken, t)}
    IN IF m = {} THEN 0 ELSE CHOOSE i \in m : \A j \in m : i <= j

\* The fields resetPassword assigns before user.save().
ResetAssignKeepToken(doc, hashedPassword) ==
    [doc EXCEPT !.password = hashedPassword]
ResetAssign(doc, hashedPassword) ==
    [doc EXCEPT !.password = hashedPassword,
                !.passwordResetToken = Absent,
                !.passwordResetExpires = Absent]

\* userService.resetPassword: the error thrown, the user it changed (0 for
\* none) and the users collection afterwards.
ResetPasswordOutcome(us, token, newPassword, t, salt1, salt2) ==
    LET hashedToken == Sha256(token)
        id == FindUserByResetToken(us, hashedToken, t)
    IN IF id = 0
       THEN [error |-> "Invalid or expired token", id |-> 0, users |-> us]
       ELSE LET hashedPassword == BcryptHash(newPassword, salt1)
                assigned == ResetAssign(us[id], hashedPassword)
                saved == PreSaveUser(assigned, assigned.password # us[id].password, salt2)
            IN [error |-> "", id |-> id, users |-> [us EXCEPT ![id] = saved]]

\* The fields generatePasswordResetToken assigns before user.save().
IssueAssignPlain(doc, resetToken, t) ==
    [doc EXCEPT !.passwordResetToken = resetToken,
                !.passwordResetExpires = <<t + ResetTokenTTL>>]
IssueAssign(doc, resetToken, t) ==
    [doc EXCEPT !.passwordResetToken = Sha256(resetToken),
                !.passwordResetExpires = <<t + ResetTokenTTL>>]

\* emailService.sendPasswordResetEmail: the error thrown and the mail the
\* transport accepted, at time t; rendering the template or
\* transporter.sendMail may fail (mailOk = FALSE).
SendPasswordResetEmail(to, resetToken, t, mailOk) ==
    IF mailOk
    THEN [error |-> "", sent |-> {[to |-> to, token |-> resetToken, at |-> t]}]
    ELSE [error |-> "Password reset email could not be sent", sent |-> {}]

\* userService.generatePasswordResetToken: the error thrown, the user it
\* changed, the users collection afterwards and the mail sent.
IssueNoSaveOnMailFailure(us, email, resetToken, t, mailOk) ==
    LET id == FindUserByEmail(us, email)
    IN IF id = 0
       THEN [error |-> "User not found", id |-> 0, users |-> us, sent |-> {}, drew |-> FALSE]
       ELSE LET assigned == IssueAssign(us[id], resetToken, t)
                saved == PreSaveUser(assigned, assigned.password # us[id].password, 1)
                mail == SendPasswordResetEmail(saved.email, resetToken, t, mailOk)
            IN [error |-> mail.error, id |-> id,
                users |-> IF mailOk THEN [us EXCEPT ![id] = saved] ELSE us,
                sent |-> mail.sent, drew |-> TRUE]
GeneratePasswordResetTokenOutcome(us, email, resetToken, t, mailOk) ==
    LET id == FindUserByEmail(us, email)
    IN IF id = 0
       THEN [error |-> "User not found", id |-> 0, users |-> us, sent |-> {}, drew |-> FALSE]
       ELSE LET assigned == IssueAssign(us[id], resetToken, t)
                saved == PreSaveUser(assigned, assigned.password # us[id].password, 1)
                mail == SendPasswordResetEmail(saved.email, resetToken, t, mailOk)
            IN [error |-> mail.error, id |-> id,
                users |-> [us EXCEPT ![id] = saved],
                sent |-> mail.sent, drew |-> TRUE]

\* The bodies a client can send to PUT /users/profile: username 0, email 0
\* and NoPicture stand for a key that is not sent.
ProfilePatches ==
    [username : 0..NumNames, email : 0..NumNames,
     profilePicture : {NoPicture, ClientPicture}]

\* userService.updateUserProfile: findByIdAndUpdate of the keys the
\* controller picks from the body, under the unique indexes.
UpdateUserProfileOutcome(us, userId, patch) ==
    IF userId \notin DOMAIN us
    THEN [error |-> "User not found or unable to update", users |-> us]
    ELSE LET updated ==
                 [us[userId] EXCEPT
                     !.username = IF patch.username = 0 THEN @ ELSE patch.username,
                     !.email = IF patch.email = 0 THEN @ ELSE patch.email,
                     !.profilePicture = IF patch.profilePicture = NoPicture THEN @
                                        ELSE patch.profilePicture]
         IN IF UniqueIndexViolated(us, userId, updated.username, updated.email)
            THEN [error |-> "E11000 duplicate key error", users |-> us]
            ELSE [error |-> "", users |-> [us EXCEPT ![userId] = updated]]

\* userService.updateUserPassword: the current password is compared with
\* the stored one, the new one is hashed and assigned, and user.save() runs
\* the pre('save') hook on the modified password.
UpdateUserPasswordOutcome(us, userId, currentPassword, newPassword, salt1, salt2) ==
    IF userId \notin DOMAIN us
    THEN [error |-> "User not found", users |-> us]
    ELSE IF ~BcryptCompare(currentPassword, us[userId].password)
    THEN [error |-> "Current password is incorrect", users |-> us]
    ELSE LET hashedPassword == BcryptHash(newPassword, salt1)
             assigned == [us[userId] EXCEPT !.password = hashedPassword]
             saved == PreSaveUser(assigned, assigned.password # us[userId].password, salt2)
         IN [error |-> "", users |-> [us EXCEPT ![userId] = saved]]

\* The values a client can send as settings.
SettingsData ==
    [notificationsEnabled : BOOLEAN, emailPreference : {"daily", "weekly"}]

\* userService.updateUserSettings: findByIdAndUpdate of { settings }.
UpdateUserSettingsOutcome(us, userId, settingsData) ==
    IF userId \notin DOMAIN us
    THEN [error |-> "User not found or unable to update settings", users |-> us]
    ELSE [error |-> "", users |-> [us EXCEPT ![userId].settings = settingsData]]

(***************************************************************************)
(* The Shelf model, shelfService and shelfController.                      *)
(***************************************************************************)
ShelfNames == {"Favorites", "Wishlist"}

\* The values a client can send as a list of book ids.
BookLists ==
    {<<>>} \cup {<<a>> : a \in BookIds} \cup {<<a, b>> : a, b \in BookIds}

\* The bodies a client can send to PUT /shelves/:id: name "" and userId 0
\* stand for a key that is not sent, books is <<>> (not sent) or <<list>>.
AllPatches ==
    [name : ShelfNames \cup {""},
     books : {<<>>} \cup {<<l>> : l \in BookLists},
     userId : 0..NumNames]

\* The bodies that send at most one key.
Patches ==
    {p \in AllPatches :
        \/ p.name = "" /\ p.books = <<>>
        \/ p.name = "" /\ p.userId = 0
        \/ p.books = <<>> /\ p.userId = 0}

\* shelfSchema.pre('validate'): the books array holds an id twice.
HasDuplicateBooks(bookList) ==
    \E i, j \in DOMAIN bookList : i < j /\ bookList[i] = bookList[j]

\* A collection with document doc stored under _id id.
Put(coll, id, doc) ==
    [i \in DOMAIN coll \cup {id} |-> IF i = id THEN doc ELSE coll[i]]

\* A collection without the document of _id id.
Remove(coll, id) == [i \in DOMAIN coll \ {id} |-> coll[i]]

\* Shelf.findOne({ _id: shelfId, userId }): the _id found, 0 for none.
FindShelfOwned(sh, shelfId, userId) ==
    IF shelfId \in DOMAIN sh /\ sh[shelfId].userId = userId THEN shelfId ELSE 0

\* shelfService.getShelfById: whatever is thrown inside the try block is
\* replaced by the one error of the catch block.
GetShelfLeaky(sh, shelfId, userId) ==
    IF shelfId \notin DOMAIN sh THEN [error |-> "Shelf not found.", shelf |-> 0]
    ELSE IF sh[shelfId].userId # userId THEN [error |-> "Access denied.", shelf |-> 0]
    ELSE [error |-> "", shelf |-> shelfId]
GetShelfOutcome(sh, shelfId, userId) ==
    IF FindShelfOwned(sh, shelfId, userId) = 0
    THEN [error |-> "Could not fetch the shelf.", shelf |-> 0]
    ELSE [error |-> "", shelf |-> shelfId]

\* A body of POST /shelves without a name key (undefined); "" is the empty
\* string.
NoShelfName == "(undefined)"

\* The default of shelfSchema.name.
DefaultShelfName == "New Shelf"

\* new Shelf(shelfData): the default fills a name that is undefined.
NewShelf(userId, name, bookList) ==
    [userId |-> userId,
     name |-> IF name = NoShelfName THEN DefaultShelfName ELSE name,
     books |-> bookList]

\* shelfService.createShelf: new Shelf(shelfData).save() validates (an
\* empty name fails required, pre('validate') refuses duplicates); the
\* catch block replaces whatever is thrown.
ServiceCreateShelf(sh, newId, userId, name, bookList) ==
    LET newShelf == NewShelf(userId, name, bookList)
    IN IF newShelf.name = "" \/ HasDuplicateBooks(newShelf.books)
       THEN [error |-> "Could not create the shelf. Please try again.",
             shelves |-> sh, id |-> 0]
       ELSE [error |-> "", id |-> newId, shelves |-> Put(sh, newId, newShelf)]

\* shelfController.createShelf in front of shelfService.createShelf: a
\* falsy name is answered before the service is called.
CreateShelfOutcome(sh, newId, userId, name, bookList) ==
    IF name = "" \/ name = NoShelfName
    THEN [error |-> "Shelf name is required", shelves |-> sh, id |-> 0]
    ELSE ServiceCreateShelf(sh, newId, userId, name, bookList)

\* The update document of findOneAndUpdate applied to a shelf: every key
\* sent is set, without validators and without the pre('validate') hook.
ApplyPatch(doc, patch) ==
    [userId |-> IF patch.userId = 0 THEN doc.userId ELSE patch.userId,
     name |-> IF patch.name = "" THEN doc.name ELSE patch.name,
     books |-> IF patch.books = <<>> THEN doc.books ELSE patch.books[1]]

\* shelfService.updateShelf.
UpdateShelfOutcome(sh, shelfId, userId, patch) ==
    IF FindShelfOwned(sh, shelfId, userId) = 0
    THEN [error |-> "Could not update the shelf. Please try again.", shelves |-> sh]
    ELSE [error |-> "", shelves |-> [sh EXCEPT ![shelfId] = ApplyPatch(sh[shelfId], patch)]]

\* The books Book.updateMany({ shelf: shelfId }, ...) matches.
BooksOnShelf(bk, shelfId) == {b \in DOMAIN bk : bk[b].shelf = shelfId}

\* Book.updateMany({ shelf: shelfId }, { $set: { shelf: null } })
ClearAllReferences(bk, shelfId) ==
    [b \in DOMAIN bk |-> [bk[b] EXCEPT !.shelf = 0]]
ClearShelfReferences(bk, shelfId) ==
    [b \in DOMAIN bk |-> IF bk[b].shelf = shelfId THEN [bk[b] EXCEPT !.shelf = 0] ELSE bk[b]]

\* shelfService.deleteShelf: the references are cleared first, then the
\* shelf is deleted if the requester owns it.
DeleteShelfOutcome(sh, bk, shelfId, userId) ==
    LET cleared == ClearShelfReferences(bk, shelfId)
    IN IF FindShelfOwned(sh, shelfId, userId) = 0
       THEN [error |-> "Could not delete the shelf. Please try again.",
             shelves |-> sh, books |-> cleared]
       ELSE [error |-> "", shelves |-> Remove(sh, shelfId), books |-> cleared]

\* shelfSchema.statics.addBookToShelf behind shelfService.addBookToShelf:
\* userId is not used.
AddBookToShelfOutcome(sh, shelfId, bookId, userId) ==
    LET failed == [error |-> "Could not add the book to the shelf. Please try again.",
                   shelves |-> sh]
    IN IF shelfId \notin DOMAIN sh THEN failed
       ELSE IF \E i \in DOMAIN sh[shelfId].books : sh[shelfId].books[i] = bookId THEN failed
       ELSE LET pushed == Append(sh[shelfId].books, bookId)
            IN IF HasDuplicateBooks(pushed) THEN failed
               ELSE [error |-> "", shelves |-> [sh EXCEPT ![shelfId].books = pushed]]

\* shelfSchema.statics.addBookToShelf from the membership check on, for a
\* document read earlier with the books array copy: the check and
\* pre('validate') see the copy, and shelf.save() sends the push of bookId
\* to the stored document, which fails when the document is gone.
AddBookSave(sh, shelfId, copy, bookId) ==
    LET failed == [error |-> "Could not add the book to the shelf. Please try again.",
                   shelves |-> sh]
    IN IF \E i \in DOMAIN copy : copy[i] = bookId THEN failed
       ELSE IF HasDuplicateBooks(Append(copy, bookId)) THEN failed
       ELSE IF shelfId \notin DOMAIN sh THEN failed
       ELSE [error |-> "",
             shelves |-> [sh EXCEPT ![shelfId].books = Append(@, bookId)]]

\* shelf.books.filter(book => book.toString() !== bookId)
RECURSIVE FilterOut(_, _)
FilterOut(bookList, bookId) ==
    IF bookList = <<>> THEN <<>>
    ELSE IF Head(bookList) = bookId THEN FilterOut(Tail(bookList), bookId)
    ELSE <<Head(bookList)>> \o FilterOut(Tail(bookList), bookId)

\* shelfSchema.statics.removeBookFromShelf behind
\* shelfService.removeBookFromShelf: userId is not used.
RemoveBookFromShelfOutcome(sh, shelfId, bookId, userId) ==
    LET failed == [error |-> "Could not remove the book from the shelf. Please try again.",
                   shelves |-> sh]
    IN IF shelfId \notin DOMAIN sh THEN failed
       ELSE LET filtered == FilterOut(sh[shelfId].books, bookId)
            IN IF HasDuplicateBooks(filtered) THEN failed
               ELSE [error |-> "", shelves |-> [sh EXCEPT ![shelfId].books = filtered]]

\* The first store call of shelfService.deleteShelf: Book.updateMany.
DeleteShelfRemoveFirst(sh, bk, shelfId) ==
    [shelves |-> Remove(sh, shelfId), books |-> bk]
DeleteShelfClear(sh, bk, shelfId) ==
    [shelves |-> sh, books |-> ClearShelfReferences(bk, shelfId)]

\* The second store call of shelfService.deleteShelf and what follows it:
\* Shelf.findOneAndDelete({ _id: shelfId, userId }).
DeleteShelfRemoveAndClear(sh, bk, shelfId, userId) ==
    IF FindShelfOwned(sh, shelfId, userId) = 0
    THEN [error |-> "Could not delete the shelf. Please try again.",
          shelves |-> sh, books |-> bk]
    ELSE [error |-> "", shelves |-> Remove(sh, shelfId),
          books |-> ClearShelfReferences(bk, shelfId)]
DeleteShelfRemove(sh, bk, shelfId, userId) ==
    IF FindShelfOwned(sh, shelfId, userId) = 0
    THEN [error |-> "Could not delete the shelf. Please try again.",
          shelves |-> sh, books |-> bk]
    ELSE [error |-> "", shelves |-> Remove(sh, shelfId), books |-> bk]

(***************************************************************************)
(* bookService.                                                            *)
(***************************************************************************)
\* Titles, author names and search queries are sequences of characters.
\* The characters of the model: letters in both cases, and two characters
\* that mean something in a regular expression.
TextChars == {"a", "A", "b", "B", "."}
QueryChars == TextChars \cup {"("}

\* The titles and the authors arrays a client sends to POST /books.
Titles == {<<"a", "b">>, <<"B", "a">>, <<"b", ".">>}
AuthorLists == {<< <<"a">> >>, << <<"b">>, <<"A", "b">> >>}

\* The bodies a client sends to POST /books that pass the checks of the
\* route; shelf 0 is null.
BookBodies(shelfRefs) == [title : Titles, authors : AuthorLists, shelf : shelfRefs]

\* A body whose title and authors do not matter to the request.
PlainBook(shelfRef) ==
    [title |-> <<"a", "b">>, authors |-> << <<"a">> >>, shelf |-> shelfRef]

\* bookController.createBook and bookService.createBook: the shelf
\* reference is whatever the body gives, null (0) by default.
CreateBookOutcome(bk, newId, bookData) ==
    IF bookData.title = <<>> \/ bookData.authors = <<>>
    THEN [error |-> "Title and authors are required", books |-> bk]
    ELSE IF Len(bookData.title) < 2
    THEN [error |-> "Could not create the book. Please try again.", books |-> bk]
    ELSE [error |-> "", books |-> Put(bk, newId, bookData)]

\* The queries a client sends to GET /books/search.
MaxQueryLen == 2
Queries == UNION {[1..n -> QueryChars] : n \in 0..MaxQueryLen}

\* The 'i' flag: characters are compared in one case.
Lower(c) == IF c = "A" THEN "a" ELSE IF c = "B" THEN "b" ELSE c

\* new RegExp(query, 'i') throws a SyntaxError for a group that is opened
\* and not closed.
RegExpValid(pattern) == \A i \in DOMAIN pattern : pattern[i] # "("

\* regex.test(text) for new RegExp(pattern, 'i'): the pattern matches at
\* some position of the text; "." matches any character, every other
\* character matches itself in either case.
RegExpTest(pattern, text) ==
    \E p \in 0..(Len(text) - Len(pattern)) :
        \A i \in DOMAIN pattern :
            pattern[i] = "." \/ Lower(pattern[i]) = Lower(text[p + i])

\* bookService.searchBooks: Book.find with $or of $regex on title and on
\* authors (an array path matches when one of its elements does).
SearchBooksOutcome(bk, query) ==
    IF ~RegExpValid(query)
    THEN [error |-> "Could not search for books. Please try again.", found |-> {}]
    ELSE [error |-> "",
          found |-> {b \in DOMAIN bk :
                        \/ RegExpTest(query, bk[b].title)
                        \/ \E i \in DOMAIN bk[b].authors :
                               RegExpTest(query, bk[b].authors[i])}]

\* bookService.updateBookShelf: the shelf named is not looked up.
UpdateBookShelfOutcome(bk, bookId, newShelfId) ==
    IF bookId \notin DOMAIN bk
    THEN [error |-> "Could not update the book shelf.", books |-> bk]
    ELSE [error |-> "", books |-> [bk EXCEPT ![bookId].shelf = newShelfId]]

\* bookService.updateBook: the body is the update document; its shelf key
\* is not sent (<<>>) or sent (<<ref>>), and the shelf named is not looked up.
UpdateBookOutcome(bk, bookId, shelfPatch) ==
    IF bookId \notin DOMAIN bk
    THEN [error |-> "Could not update the book. Please try again.", books |-> bk]
    ELSE [error |-> "",
          books |-> IF shelfPatch = <<>> THEN bk
                    ELSE [bk EXCEPT ![bookId].shelf = shelfPatch[1]]]

\* bookService.deleteBook.
DeleteBookOutcome(bk, bookId) ==
    IF bookId \notin DOMAIN bk
    THEN [error |-> "Could not delete the book. Please try again.", books |-> bk]
    ELSE [error |-> "", books |-> Remove(bk, bookId)]

(***************************************************************************)
(* Routing: the order in which a router's routes are registered.           *)
(***************************************************************************)
\* A segment of a route's path: a literal, or a parameter such as :id.
Lit(name) == [param |-> FALSE, name |-> name]
Param(name) == [param |-> TRUE, name |-> name]

Route(method, path, handler) == [method |-> method, path |-> path, handler |-> handler]

\* routes/users.js, in the order of registration.
UsersRoutes ==
    << Route("GET", <<Param("id")>>, "getUserById"),
       Route("GET", <<Lit("profile")>>, "getUserProfile"),
       Route("PUT", <<Lit("profile")>>, "updateUserProfile"),
       Route("PUT", <<Lit("password")>>, "updateUserPassword"),
       Route("POST", <<Lit("forgot-password")>>, "generatePasswordResetToken"),
       Route("POST", <<Lit("reset-password")>>, "resetPassword"),
       Route("PUT", <<Lit("settings")>>, "updateUserSettings"),
       Route("GET", <<Lit("settings")>>, "fetchUserSettings"),
       Route("POST", <<Lit("refresh-token")>>, "refreshToken") >>

\* The book router, in the order of registration.
BooksRoutes ==
    << Route("GET", <<>>, "getAllBooks"),
       Route("GET", <<Param("id")>>, "getBookById"),
       Route("GET", <<Lit("shelf"), Param("shelfId")>>, "getBooksByShelf"),
       Route("PUT", <<Param("id"), Lit("shelf")>>, "updateBookShelf"),
       Route("POST", <<>>, "createBook"),
       Route("PUT", <<Param("id")>>, "updateBook"),
       Route("DELETE", <<Param("id")>>, "deleteBook"),
       Route("GET", <<Lit("search")>>, "searchBooks"),
       Route("POST", <<Param("id"), Lit("review")>>, "addReview") >>

\* A route matches a request: same method, and segment by segment a
\* parameter matches anything and a literal matches itself.
RouteMatches(route, method, path) ==
    /\ route.method = method
    /\ Len(route.path) = Len(path)
    /\ \A i \in DOMAIN path : route.path[i].param \/ route.path[i].name = path[i]

\* The handler a router runs: the one of the first route registered that
\* matches ("" when none does); no handler here calls next() without an error.
Dispatch(routes, method, path) ==
    LET m == {i \in DOMAIN routes : RouteMatches(routes[i], method, path)}
    IN IF m = {} THEN ""
       ELSE routes[CHOOSE i \in m : \A j \in m : i <= j].handler

\* The _id i as it is written in a URL.
IdSegment(i) == ToString(i)

\* The cast of a path segment to an ObjectId by findById: the _id it
\* writes, 0 when it writes none (CastError).
CastObjectId(segment, ids) ==
    IF \E i \in ids : IdSegment(i) = segment
    THEN CHOOSE i \in ids : IdSegment(i) = segment
    ELSE 0

\* The _ids a URL can name.
RequestUserIds == 1..(NumNames + 1)

\* The fields of a user document that res.json sends.
SentFields(doc, excluded) == DOMAIN doc \ excluded

\* userController.getUserById with userService.getUserById: the whole
\* document of the user the path names.
GetUserByIdOutcome(us, segment) ==
    LET id == CastObjectId(segment, RequestUserIds)
    IN IF id = 0
       THEN [error |-> "Cast to ObjectId failed", id |-> 0, fields |-> {}]
       ELSE IF id \notin DOMAIN us
       THEN [error |-> "User not found", id |-> 0, fields |-> {}]
       ELSE [error |-> "", id |-> id, fields |-> SentFields(us[id], {})]

\* userController.getUserProfile with userService.getUserProfile: the
\* document of req.user without the password and the reset fields.
GetUserProfileOutcome(us, userId) ==
    IF userId \notin DOMAIN us
    THEN [error |-> "User not found", id |-> 0, fields |-> {}]
    ELSE [error |-> "", id |-> userId,
          fields |-> SentFields(us[userId],
                         {"password", "passwordResetToken", "passwordResetExpires"})]

\* bookController.getBookById with bookService.getBookById: the catch
\* block replaces whatever is thrown, a CastError included.
GetBookByIdOutcome(bk, segment) ==
    LET id == CastObjectId(segment, 1..(MaxBooks + 1))
    IN IF id = 0 \/ id \notin DOMAIN bk
       THEN [error |-> "Could not retrieve the book. Please try again later.", found |-> {}]
       ELSE [error |-> "", found |-> {id}]

(***************************************************************************)
(* Requests: each action is one request handled to completion.             *)
(***************************************************************************)
\* new Error(message), as every service throws it: the object has no status
\* property (0 stands for undefined).
NewError(message) == [message |-> message, status |-> 0]

\* The error-handling middleware of app.js: err.status || 500.
ErrorHandler(err) ==
    [status |-> IF err.status # 0 THEN err.status ELSE 500, message |-> err.message]

\* The status of the response of a controller that answers okStatus itself
\* and passes what the service throws to next(err).
ControllerStatus(error, okStatus) ==
    IF error = "" THEN okStatus ELSE ErrorHandler(NewError(error)).status

\* The request and what the caller received; unused fields keep these values.
NoResp ==
    [op |-> "", error |-> "", email |-> 0, password |-> <<>>, token |-> <<>>,
     id |-> 0, requester |-> 0, shelf |-> 0, book |-> 0, matched |-> 0,
     jwt |-> NoJwt, variant |-> "", status |-> 0, detail |-> "", next |-> FALSE,
     picture |-> NoPicture, query |-> <<>>, found |-> {},
     path |-> <<>>, handler |-> "", fields |-> {}, name |-> "", current |-> <<>>]

Init ==
    /\ users = <<>>
    /\ pending = <<>>
    /\ now = 0
    /\ rng = 0
    /\ mailbox = {}
    /\ consumed = {}
    /\ shelves = <<>>
    /\ books = <<>>
    /\ nextShelf = 0
    /\ nextBook = 0
    /\ deleting = <<>>
    /\ adding = <<>>
    /\ resp = NoResp

\* POST /auth/signup
Signup(username, email, password, profilePicture) ==
    \E salt1, salt2 \in Salts :
        LET out == SignupOutcome(users, username, email, password, profilePicture,
                                 salt1, salt2)
        IN /\ users' = out.users
           /\ resp' = [NoResp EXCEPT !.op = "signup", !.error = out.error,
                           !.email = email, !.password = password, !.id = out.id,
                           !.picture = profilePicture,
                           !.status = ControllerStatus(out.error, 201)]
           /\ UNCHANGED <<pending, now, rng, mailbox, consumed, shelfVars>>

\* POST /auth/signup up to the await of bcrypt.hash: the findOne has found
\* no user with the email or the username, or the request fails.
SignupBegin(username, email, password, profilePicture) ==
    /\ Len(pending) < MaxPending
    /\ IF \E i \in DOMAIN users : users[i].email = email \/ users[i].username = username
       THEN /\ resp' = [NoResp EXCEPT !.op = "signup",
                            !.error = "Email or username is already in use",
                            !.email = email, !.password = password,
                            !.picture = profilePicture,
                            !.status = ControllerStatus(
                                "Email or username is already in use", 201)]
            /\ UNCHANGED pending
       ELSE /\ \E salt1 \in Salts :
                   pending' = Append(pending,
                       NewUser(username, email, BcryptHash(password, salt1),
                               IF profilePicture = NoPicture THEN SignupDefaultPicture
                               ELSE profilePicture))
            /\ UNCHANGED resp
    /\ UNCHANGED <<users, now, rng, mailbox, consumed, shelfVars>>

\* POST /auth/signup from newUser.save() on, for the k-th signup in flight.
SignupFinish(k) ==
    /\ k \in DOMAIN pending
    /\ \E salt2 \in Salts :
           LET out == SaveNewUser(users, pending[k], salt2)
           IN /\ users' = out.users
              /\ resp' = [NoResp EXCEPT !.op = "signup", !.error = out.error,
                              !.email = pending[k].email, !.id = out.id,
                              !.status = ControllerStatus(out.error, 201),
                              !.picture = IF pending[k].profilePicture = SignupDefaultPicture
                                          THEN NoPicture
                                          ELSE pending[k].profilePicture]
    /\ pending' = [i \in 1..(Len(pending) - 1) |->
                       IF i < k THEN pending[i] ELSE pending[i + 1]]
    /\ UNCHANGED <<now, rng, mailbox, consumed, shelfVars>>

\* POST /auth/login
Login(email, password) ==
    LET out == LoginOutcome(users, email, password)
    IN /\ resp' = [NoResp EXCEPT !.op = "login", !.error = out.error,
                       !.email = email, !.password = password, !.id = out.sub,
                       !.status = ControllerStatus(out.error, 200),
                       !.jwt = IF out.error = "" THEN JwtSign(out.sub, JwtSecret, now)
                               ELSE NoJwt]
       /\ UNCHANGED <<authVars, shelfVars>>

\* POST /users/forgot-password
RequestPasswordReset(email, mailOk) ==
    LET resetToken == <<rng + 1>>
        out == GeneratePasswordResetTokenOutcome(users, email, resetToken, now, mailOk)
    IN /\ out.drew => rng < MaxTokens
       /\ users' = out.users
       /\ rng' = IF out.drew THEN rng + 1 ELSE rng
       /\ mailbox' = mailbox \cup out.sent
       /\ resp' = [NoResp EXCEPT !.op = "forgotPassword", !.error = out.error,
                       !.email = email, !.id = out.id,
                       !.token = IF out.drew THEN resetToken ELSE <<>>]
       /\ UNCHANGED <<pending, now, consumed, shelfVars>>

\* POST /users/reset-password
ResetPassword(token, newPassword) ==
    \E salt1, salt2 \in Salts :
        LET out == ResetPasswordOutcome(users, token, newPassword, now, salt1, salt2)
        IN /\ users' = out.users
           /\ consumed' = IF out.error = "" THEN consumed \cup {token} ELSE consumed
           /\ resp' = [NoResp EXCEPT !.op = "resetPassword", !.error = out.error,
                           !.token = token, !.password = newPassword, !.id = out.id]
           /\ UNCHANGED <<pending, now, rng, mailbox, shelfVars>>

\* Time passes.
Tick ==
    /\ now < MaxTicks * TickStep
    /\ now' = now + TickStep
    /\ UNCHANGED <<users, pending, rng, mailbox, consumed, shelfVars, resp>>

\* A protected request carrying token reaches authenticateJWT.
Gate(variant, token) ==
    LET out == AuthenticateJWT(variant, token, now, users)
    IN /\ resp' = [NoResp EXCEPT !.op = "gate", !.error = out.message,
                       !.jwt = token, !.variant = variant, !.status = out.status,
                       !.detail = out.detail, !.id = out.user, !.next = out.next]
       /\ UNCHANGED <<authVars, shelfVars>>

\* A request that passed authenticateJWT carries an existing user as req.user.
Authenticated(requester) == requester \in DOMAIN users

\* PUT /users/profile
UpdateUserProfile(requester, patch) ==
    /\ Authenticated(requester)
    /\ LET out == UpdateUserProfileOutcome(users, requester, patch)
       IN /\ users' = out.users
          /\ resp' = [NoResp EXCEPT !.op = "updateUserProfile", !.error = out.error,
                          !.requester = requester, !.id = patch.username,
                          !.email = patch.email, !.picture = patch.profilePicture]
    /\ UNCHANGED <<pending, now, rng, mailbox, consumed, shelfVars>>

\* PUT /users/password
UpdateUserPassword(requester, currentPassword, newPassword) ==
    /\ Authenticated(requester)
    /\ \E salt1, salt2 \in Salts :
           LET out == UpdateUserPasswordOutcome(users, requester, currentPassword,
                                                newPassword, salt1, salt2)
           IN /\ users' = out.users
              /\ resp' = [NoResp EXCEPT !.op = "updateUserPassword", !.error = out.error,
                              !.requester = requester, !.email = users[requester].email,
                              !.current = currentPassword, !.password = newPassword,
                              !.status = ControllerStatus(out.error, 200)]
    /\ UNCHANGED <<pending, now, rng, mailbox, consumed, shelfVars>>

\* PUT /users/settings
UpdateUserSettings(requester, settingsData) ==
    /\ Authenticated(requester)
    /\ LET out == UpdateUserSettingsOutcome(users, requester, settingsData)
       IN /\ users' = out.users
          /\ resp' = [NoResp EXCEPT !.op = "updateUserSettings", !.error = out.error,
                          !.requester = requester]
    /\ UNCHANGED <<pending, now, rng, mailbox, consumed, shelfVars>>

\* GET /shelves/:id
GetShelf(requester, shelfId) ==
    /\ Authenticated(requester)
    /\ LET out == GetShelfOutcome(shelves, shelfId, requester)
       IN resp' = [NoResp EXCEPT !.op = "getShelf", !.error = out.error,
                       !.requester = requester, !.shelf = shelfId, !.id = out.shelf,
                       !.status = ControllerStatus(out.error, 200)]
    /\ UNCHANGED <<authVars, shelfVars>>

\* POST /shelves
CreateShelf(requester, name, bookList) ==
    /\ Authenticated(requester)
    /\ nextShelf < MaxShelves
    /\ LET out == CreateShelfOutcome(shelves, nextShelf + 1, requester, name, bookList)
       IN /\ shelves' = out.shelves
          /\ nextShelf' = IF out.error = "" THEN nextShelf + 1 ELSE nextShelf
          /\ resp' = [NoResp EXCEPT !.op = "createShelf", !.error = out.error,
                          !.requester = requester, !.shelf = out.id, !.name = name,
                          !.status = IF out.error = "Shelf name is required" THEN 400
                                     ELSE ControllerStatus(out.error, 201)]
    /\ UNCHANGED <<authVars, books, nextBook, deleting, adding>>

\* PUT /shelves/:id
UpdateShelf(requester, shelfId, patch) ==
    /\ Authenticated(requester)
    /\ LET out == UpdateShelfOutcome(shelves, shelfId, requester, patch)
       IN /\ shelves' = out.shelves
          /\ resp' = [NoResp EXCEPT !.op = "updateShelf", !.error = out.error,
                          !.requester = requester, !.shelf = shelfId]
    /\ UNCHANGED <<authVars, books, nextShelf, nextBook, deleting, adding>>

\* DELETE /shelves/:id
DeleteShelf(requester, shelfId) ==
    /\ Authenticated(requester)
    /\ LET out == DeleteShelfOutcome(shelves, books, shelfId, requester)
       IN /\ shelves' = out.shelves
          /\ books' = out.books
          /\ resp' = [NoResp EXCEPT !.op = "deleteShelf", !.error = out.error,
                          !.requester = requester, !.shelf = shelfId,
                          !.matched = Cardinality(BooksOnShelf(books, shelfId))]
    /\ UNCHANGED <<authVars, nextShelf, nextBook, deleting, adding>>

\* DELETE /shelves/:id up to the await of Book.updateMany.
DeleteShelfBegin(requester, shelfId) ==
    /\ Authenticated(requester)
    /\ Len(deleting) < MaxDeleting
    /\ LET out == DeleteShelfClear(shelves, books, shelfId)
       IN /\ shelves' = out.shelves
          /\ books' = out.books
    /\ deleting' = Append(deleting,
                       [requester |-> requester, shelf |-> shelfId,
                        matched |-> Cardinality(BooksOnShelf(books, shelfId))])
    /\ UNCHANGED <<authVars, nextShelf, nextBook, adding, resp>>

\* DELETE /shelves/:id from Shelf.findOneAndDelete on, for the k-th call in
\* flight.
DeleteShelfFinish(k) ==
    /\ k \in DOMAIN deleting
    /\ LET out == DeleteShelfRemove(shelves, books, deleting[k].shelf,
                                    deleting[k].requester)
       IN /\ shelves' = out.shelves
          /\ books' = out.books
          /\ resp' = [NoResp EXCEPT !.op = "deleteShelf", !.error = out.error,
                          !.requester = deleting[k].requester,
                          !.shelf = deleting[k].shelf,
                          !.matched = deleting[k].matched]
    /\ deleting' = [i \in 1..(Len(deleting) - 1) |->
                        IF i < k THEN deleting[i] ELSE deleting[i + 1]]
    /\ UNCHANGED <<authVars, nextShelf, nextBook, adding>>

\* POST /shelves/:id/books
AddBookToShelf(requester, shelfId, bookId) ==
    /\ Authenticated(requester)
    /\ LET out == AddBookToShelfOutcome(shelves, shelfId, bookId, requester)
       IN /\ shelves' = out.shelves
          /\ resp' = [NoResp EXCEPT !.op = "addBookToShelf", !.error = out.error,
                          !.requester = requester, !.shelf = shelfId, !.book = bookId]
    /\ UNCHANGED <<authVars, books, nextShelf, nextBook, deleting, adding>>

\* POST /shelves/:id/books up to the await of findById: the shelf is read,
\* or the request fails because there is none.
AddBookBegin(requester, shelfId, bookId) ==
    /\ Authenticated(requester)
    /\ Len(adding) < MaxAdding
    /\ IF shelfId \notin DOMAIN shelves
       THEN /\ resp' = [NoResp EXCEPT !.op = "addBookToShelf",
                            !.error = "Could not add the book to the shelf. Please try again.",
                            !.requester = requester, !.shelf = shelfId, !.book = bookId]
            /\ UNCHANGED adding
       ELSE /\ adding' = Append(adding,
                              [requester |-> requester, shelf |-> shelfId,
                               book |-> bookId, copy |-> shelves[shelfId].books])
            /\ UNCHANGED resp
    /\ UNCHANGED <<authVars, shelves, books, nextShelf, nextBook, deleting>>

\* POST /shelves/:id/books from the membership check on, for the k-th call
\* in flight.
AddBookFinish(k) ==
    /\ k \in DOMAIN adding
    /\ LET out == AddBookSave(shelves, adding[k].shelf, adding[k].copy, adding[k].book)
       IN /\ shelves' = out.shelves
          /\ resp' = [NoResp EXCEPT !.op = "addBookToShelf", !.error = out.error,
                          !.requester = adding[k].requester,
                          !.shelf = adding[k].shelf, !.book = adding[k].book]
    /\ adding' = [i \in 1..(Len(adding) - 1) |->
                      IF i < k THEN adding[i] ELSE adding[i + 1]]
    /\ UNCHANGED <<authVars, books, nextShelf, nextBook, deleting>>

\* DELETE /shelves/:id/books
RemoveBookFromShelf(requester, shelfId, bookId) ==
    /\ Authenticated(requester)
    /\ LET out == RemoveBookFromShelfOutcome(shelves, shelfId, bookId, requester)
       IN /\ shelves' = out.shelves
          /\ resp' = [NoResp EXCEPT !.op = "removeBookFromShelf", !.error = out.error,
                          !.requester = requester, !.shelf = shelfId, !.book = bookId]
    /\ UNCHANGED <<authVars, books, nextShelf, nextBook, deleting, adding>>

\* POST /books
CreateBook(requester, bookData) ==
    /\ Authenticated(requester)
    /\ nextBook < MaxBooks
    /\ LET out == CreateBookOutcome(books, nextBook + 1, bookData)
       IN /\ books' = out.books
          /\ nextBook' = IF out.error = "" THEN nextBook + 1 ELSE nextBook
          /\ resp' = [NoResp EXCEPT !.op = "createBook", !.error = out.error,
                          !.requester = requester,
                          !.book = IF out.error = "" THEN nextBook + 1 ELSE 0]
    /\ UNCHANGED <<authVars, shelves, nextShelf, deleting, adding>>

\* PUT /books/:id/shelf
UpdateBookShelf(requester, bookId, newShelfId) ==
    /\ Authenticated(requester)
    /\ LET out == UpdateBookShelfOutcome(books, bookId, newShelfId)
       IN /\ books' = out.books
          /\ resp' = [NoResp EXCEPT !.op = "updateBookShelf", !.error = out.error,
                          !.requester = requester, !.shelf = newShelfId, !.book = bookId]
    /\ UNCHANGED <<authVars, shelves, nextShelf, nextBook, deleting, adding>>

\* PUT /books/:id
UpdateBook(requester, bookId, shelfPatch) ==
    /\ Authenticated(requester)
    /\ LET out == UpdateBookOutcome(books, bookId, shelfPatch)
       IN /\ books' = out.books
          /\ resp' = [NoResp EXCEPT !.op = "updateBook", !.error = out.error,
                          !.requester = requester, !.book = bookId,
                          !.shelf = IF shelfPatch = <<>> THEN 0 ELSE shelfPatch[1]]
    /\ UNCHANGED <<authVars, shelves, nextShelf, nextBook, deleting, adding>>

\* bookController.searchBooks, the handler written for GET /books/search.
SearchBooks(query) ==
    LET out == SearchBooksOutcome(books, query)
    IN /\ resp' = [NoResp EXCEPT !.op = "searchBooks", !.error = out.error,
                       !.query = query, !.found = out.found]
       /\ UNCHANGED <<authVars, shelfVars>>

\* GET /api/users/<segment> with a token that passes the gate.
GetUsers(requester, segment) ==
    /\ Authenticated(requester)
    /\ LET handler == Dispatch(UsersRoutes, "GET", <<segment>>)
           out == IF handler = "getUserProfile"
                  THEN GetUserProfileOutcome(users, requester)
                  ELSE GetUserByIdOutcome(users, segment)
       IN resp' = [NoResp EXCEPT !.op = "GET /users", !.error = out.error,
                       !.requester = requester, !.path = <<segment>>,
                       !.handler = handler, !.id = out.id, !.fields = out.fields,
                       !.status = ControllerStatus(out.error, 200)]
    /\ UNCHANGED <<authVars, shelfVars>>

\* GET /api/books/<segment>?q=<query>
GetBooks(segment, query) ==
    /\ LET handler == Dispatch(BooksRoutes, "GET", <<segment>>)
           out == IF handler = "searchBooks"
                  THEN SearchBooksOutcome(books, query)
                  ELSE GetBookByIdOutcome(books, segment)
       IN resp' = [NoResp EXCEPT !.op = "GET /books", !.error = out.error,
                       !.path = <<segment>>, !.query = query,
                       !.handler = handler, !.found = out.found,
                       !.status = ControllerStatus(out.error, 200)]
    /\ UNCHANGED <<authVars, shelfVars>>

\* DELETE /books/:id
DeleteBook(requester, bookId) ==
    /\ Authenticated(requester)
    /\ LET out == DeleteBookOutcome(books, bookId)
       IN /\ books' = out.books
          /\ resp' = [NoResp EXCEPT !.op = "deleteBook", !.error = out.error,
                          !.requester = requester, !.book = bookId]
    /\ UNCHANGED <<authVars, shelves, nextShelf, nextBook, deleting, adding>>

(***************************************************************************)
(* Specifications.                                                         *)
(***************************************************************************)
\* The credential store and the password-reset token lifecycle.
AuthNext ==
    \/ \E n \in Usernames, e \in Emails, p \in Passwords : Signup(n, e, p, NoPicture)
    \/ \E e \in Emails, p \in Passwords : Login(e, p)
    \/ \E e \in Emails, ok \in BOOLEAN : RequestPasswordReset(e, ok)
    \/ \E t \in Tokens, p \in Passwords : ResetPassword(t, p)
    \/ Tick

AuthSpec == Init /\ [][AuthNext]_vars

\* Users sign up one after the other as user n with email n.
SignupNext ==
    /\ Len(users) < NumNames
    /\ Signup(Len(users) + 1, Len(users) + 1, <<1>>, NoPicture)

\* The ids a client can name: those allocated so far or later, and one that
\* never names a document.
RequestShelfIds == 1..(MaxShelves + 1)
RequestBookIds == 1..(MaxBooks + 1)

\* The shelves of authenticated users.
ShelfNext ==
    \/ SignupNext
    \/ \E u \in Usernames, s \in RequestShelfIds : GetShelf(u, s)
    \/ \E u \in Usernames, n \in ShelfNames \cup {"", NoShelfName}, l \in BookLists :
           CreateShelf(u, n, l)
    \/ \E u \in Usernames, s \in RequestShelfIds, p \in Patches : UpdateShelf(u, s, p)
    \/ \E u \in Usernames, s \in RequestShelfIds, b \in BookIds : AddBookToShelf(u, s, b)
    \/ \E u \in Usernames, s \in RequestShelfIds, b \in BookIds : RemoveBookFromShelf(u, s, b)

ShelfSpec == Init /\ [][ShelfNext]_vars

\* The shelf key of a body sent to PUT /books/:id: not sent, null or an id.
ShelfPatches == {<<>>} \cup {<<r>> : r \in RequestShelfIds \cup {0}}

\* Shelves and the books that reference them.
LibraryNext ==
    \/ SignupNext
    \/ \E u \in Usernames, n \in ShelfNames : CreateShelf(u, n, <<>>)
    \/ \E u \in Usernames, s \in RequestShelfIds : GetShelf(u, s)
    \/ \E u \in Usernames, s \in RequestShelfIds : DeleteShelf(u, s)
    \/ \E u \in Usernames, s \in RequestShelfIds \cup {0} : CreateBook(u, PlainBook(s))
    \/ \E u \in Usernames, b \in RequestBookIds, s \in RequestShelfIds : UpdateBookShelf(u, b, s)
    \/ \E u \in Usernames, b \in RequestBookIds, sp \in ShelfPatches : UpdateBook(u, b, sp)
    \/ \E u \in Usernames, b \in RequestBookIds : DeleteBook(u, b)

LibrarySpec == Init /\ [][LibraryNext]_vars

\* The times at which a token can have been signed.
IssueTimes == {k * TickStep : k \in 0..MaxTicks}

\* The tokens a request can carry at time t: none, one that is no JWT, and
\* the JWTs signed so far for any user id, with the server's key or another.
PresentedTokens(t) ==
    {NoJwt, MalformedJwt} \cup
    {JwtSign(u, k, i) : u \in Usernames, k \in JwtKeys, i \in {j \in IssueTimes : j <= t}}

\* The authentication gate in front of every protected route.
GateNext ==
    \/ SignupNext
    \/ Tick
    \/ \E v \in GateVariants, token \in PresentedTokens(now) : Gate(v, token)

GateSpec == Init /\ [][GateNext]_vars

\* Signups that interleave with each other and with profile updates.
IdentityNext ==
    \/ \E n \in Usernames, e \in Emails, pic \in {NoPicture, ClientPicture} :
           SignupBegin(n, e, <<1>>, pic)
    \/ \E k \in 1..MaxPending : SignupFinish(k)
    \/ \E u \in Usernames, patch \in ProfilePatches : UpdateUserProfile(u, patch)

IdentitySpec == Init /\ [][IdentityNext]_vars

\* The saves of a user document that do not set the password.
AccountNext ==
    \/ SignupNext
    \/ \E e \in Emails, ok \in BOOLEAN : RequestPasswordReset(e, ok)
    \/ \E u \in Usernames, patch \in ProfilePatches : UpdateUserProfile(u, patch)
    \/ \E u \in Usernames, sd \in SettingsData : UpdateUserSettings(u, sd)

AccountSpec == Init /\ [][AccountNext]_vars

\* Requests whose failures belong to the classes of the error taxonomy.
HttpNext ==
    \/ \E n \in Usernames, e \in Emails, p \in Passwords : Signup(n, e, p, NoPicture)
    \/ \E e \in Emails, p \in Passwords : Login(e, p)
    \/ \E u \in Usernames, n \in ShelfNames : CreateShelf(u, n, <<>>)
    \/ \E u \in Usernames, s \in RequestShelfIds : GetShelf(u, s)

HttpSpec == Init /\ [][HttpNext]_vars

\* Books that are put on shelves and deleted.
ShelvingNext ==
    \/ SignupNext
    \/ \E u \in Usernames : CreateShelf(u, "Favorites", <<>>)
    \/ \E u \in Usernames : CreateBook(u, PlainBook(0))
    \/ \E u \in Usernames, s \in RequestShelfIds, b \in BookIds : AddBookToShelf(u, s, b)
    \/ \E u \in Usernames, b \in RequestBookIds, s \in RequestShelfIds : UpdateBookShelf(u, b, s)
    \/ \E u \in Usernames, b \in RequestBookIds : DeleteBook(u, b)

ShelvingSpec == Init /\ [][ShelvingNext]_vars

\* The path segments a client puts after /api/users and after /api/books.
UsersSegments == {"profile"} \cup {IdSegment(i) : i \in RequestUserIds}
BooksSegments == {"search"} \cup {IdSegment(i) : i \in RequestBookIds}

\* GET requests that the routers dispatch.
RouteNext ==
    \/ SignupNext
    \/ \E u \in Usernames : CreateBook(u, PlainBook(0))
    \/ \E u \in Usernames, seg \in UsersSegments : GetUsers(u, seg)
    \/ \E seg \in BooksSegments, q \in Queries : GetBooks(seg, q)

RouteSpec == Init /\ [][RouteNext]_vars

\* No call of deleteShelf is between its two store calls.
NoDeleteInFlight == deleting = <<>>

\* deleteShelf in its two store calls, with no other writer, a second
\* deleteShelf included, while a call is in flight: writers run before and
\* after, readers at any time.
QuietDeleteNext ==
    \/ SignupNext
    \/ NoDeleteInFlight /\ \E u \in Usernames : CreateShelf(u, "Favorites", <<>>)
    \/ NoDeleteInFlight /\ \E u \in Usernames, s \in DOMAIN shelves \cup {0} :
                               CreateBook(u, PlainBook(s))
    \/ NoDeleteInFlight /\ \E u \in Usernames, b \in RequestBookIds, s \in DOMAIN shelves :
                               UpdateBookShelf(u, b, s)
    \/ NoDeleteInFlight /\ \E u \in Usernames, s \in RequestShelfIds :
                               DeleteShelfBegin(u, s)
    \/ \E k \in 1..MaxDeleting : DeleteShelfFinish(k)
    \/ \E u \in Usernames, s \in RequestShelfIds : GetShelf(u, s)
    \/ \E b \in RequestBookIds : GetBooks(IdSegment(b), <<>>)

QuietDeleteSpec == Init /\ [][QuietDeleteNext]_vars

\* deleteShelf in its two store calls, with updateBookShelf at any time.
RacingDeleteNext ==
    \/ SignupNext
    \/ \E u \in Usernames : CreateShelf(u, "Favorites", <<>>)
    \/ \E u \in Usernames : CreateBook(u, PlainBook(0))
    \/ \E u \in Usernames, b \in RequestBookIds, s \in RequestShelfIds :
           UpdateBookShelf(u, b, s)
    \/ \E u \in Usernames, s \in RequestShelfIds : DeleteShelfBegin(u, s)
    \/ \E k \in 1..MaxDeleting : DeleteShelfFinish(k)

RacingDeleteSpec == Init /\ [][RacingDeleteNext]_vars

\* The strings a caller can pass as the current password: plaintexts, and
\* strings that have the form of a bcrypt hash.
CurrentPasswords == Passwords \cup {BcryptHash(p, salt) : p \in Passwords, salt \in Salts}

\* Users who change their password and log in.
PasswordNext ==
    \/ \E n \in Usernames, e \in Emails, p \in Passwords : Signup(n, e, p, NoPicture)
    \/ \E u \in Usernames, cur \in CurrentPasswords, new \in Passwords :
           UpdateUserPassword(u, cur, new)
    \/ \E e \in Emails, p \in Passwords : Login(e, p)

PasswordSpec == Init /\ [][PasswordNext]_vars

\* addBookToShelf calls that interleave at their awaits.
AddRaceNext ==
    \/ SignupNext
    \/ \E u \in Usernames : CreateShelf(u, "Favorites", <<>>)
    \/ \E u \in Usernames, s \in RequestShelfIds : AddBookBegin(u, s, 1)
    \/ \E k \in 1..MaxAdding : AddBookFinish(k)

AddRaceSpec == Init /\ [][AddRaceNext]_vars

\* The catalogue and its search.
SearchNext ==
    \/ SignupNext
    \/ \E u \in Usernames, body \in BookBodies({0}) : CreateBook(u, body)
    \/ \E q \in Queries : SearchBooks(q)

SearchSpec == Init /\ [][SearchNext]_vars

Next ==
    \/ AuthNext \/ ShelfNext \/ LibraryNext \/ GateNext \/ IdentityNext \/ AccountNext
    \/ HttpNext \/ ShelvingNext \/ RouteNext \/ SearchNext
    \/ QuietDeleteNext \/ RacingDeleteNext \/ PasswordNext \/ AddRaceNext

Spec == Init /\ [][Next]_vars

(***************************************************************************)
(* Properties.                                                             *)
(***************************************************************************)
\* The error of a failed login and of a failed reset, as the caller sees it.
InvalidCredentials == [error |-> "Invalid credentials", sub |-> 0]
InvalidOrExpiredToken(us) == [error |-> "Invalid or expired token", id |-> 0, users |-> us]

\* C1: after a successful signup(username, email, password) the stored
\* password differs from the plaintext, bcrypt.compare(plaintext, stored)
\* succeeds, login(email, password) returns a token whose subject is the new
\* user's id, and login(email, p') fails with "Invalid credentials" for
\* every other p'.
C1_SignupThenLogin ==
    (resp.op = "signup" /\ resp.error = "") =>
        /\ users[resp.id].password # resp.password
        /\ BcryptCompare(resp.password, users[resp.id].password)
        /\ LoginOutcome(users, resp.email, resp.password) = [error |-> "", sub |-> resp.id]
        /\ \A p \in Passwords \ {resp.password} :
               LoginOutcome(users, resp.email, p) = InvalidCredentials

\* C2: a failed login returns one and the same error value, whether no user
\* has the email or a user has it and the password does not verify: for any
\* two failing logins, one of each kind, the outcomes are equal, and the
\* response of a failed login carries nothing but that error.
C2_LoginFailuresIdentical ==
    /\ \A e1, e2 \in Emails, p1, p2 \in Passwords :
           ( /\ FindUserByEmail(users, e1) = 0
             /\ FindUserByEmail(users, e2) # 0
             /\ ~BcryptCompare(p2, users[FindUserByEmail(users, e2)].password) )
           => /\ LoginOutcome(users, e1, p1) = LoginOutcome(users, e2, p2)
              /\ LoginOutcome(users, e1, p1) = InvalidCredentials
    /\ (resp.op = "login" /\ resp.error # "") =>
           resp.error = "Invalid credentials" /\ resp.id = 0

\* A login was refused for a registered email while another email is not
\* registered.
C2_Witness ==
    /\ resp.op = "login"
    /\ resp.error # ""
    /\ FindUserByEmail(users, resp.email) # 0
    /\ \E e \in Emails : FindUserByEmail(users, e) = 0

\* C3: a reset token that resetPassword has accepted once is refused ever
\* after with "Invalid or expired token", and refusing it changes no user,
\* whatever the time.
C3_ResetTokenSingleUse ==
    /\ \A token \in consumed, p \in Passwords, salt1, salt2 \in Salts :
           ResetPasswordOutcome(users, token, p, now, salt1, salt2)
               = InvalidOrExpiredToken(users)
    /\ (resp.op = "resetPassword" /\ resp.error # "") =>
           resp.error = "Invalid or expired token"

\* A consumed token was presented again, and refused, while the hour since
\* it was mailed has not passed.
C3_Witness ==
    /\ resp.op = "resetPassword"
    /\ resp.error = "Invalid or expired token"
    /\ resp.token \in consumed
    /\ \E m \in mailbox : m.token = resp.token /\ now < m.at + ResetTokenTTL

\* C4: resetPassword(token, p) succeeds only if some user's stored reset
\* hash is the hash of token and that user's stored expiry is strictly later
\* than now; once a mailed token's hour (the time it was issued + 1 hour)
\* has passed, presenting it fails exactly as an unknown token does and
\* changes no user, even while its hash is still stored.
C4_ResetNeedsHashAndFutureExpiry ==
    \A token \in Tokens, p \in Passwords, salt1, salt2 \in Salts :
        LET out == ResetPasswordOutcome(users, token, p, now, salt1, salt2)
        IN /\ out.error = "" =>
                 \E i \in DOMAIN users :
                     /\ users[i].passwordResetToken = Sha256(token)
                     /\ users[i].passwordResetExpires # Absent
                     /\ users[i].passwordResetExpires[1] > now
           /\ out.error # "" => out = InvalidOrExpiredToken(users)
           /\ (\E m \in mailbox : m.token = token /\ now >= m.at + ResetTokenTTL)
                 => out = InvalidOrExpiredToken(users)

\* A mailed token was presented after its hour, with its hash still stored,
\* and was refused.
C4_Witness ==
    /\ resp.op = "resetPassword"
    /\ resp.error = "Invalid or expired token"
    /\ \E m \in mailbox : m.token = resp.token /\ now >= m.at + ResetTokenTTL
    /\ \E i \in DOMAIN users : users[i].passwordResetToken = Sha256(resp.token)

\* C5: after a successful resetPassword(token, newPassword) for user u,
\* login(u.email, newPassword) succeeds, login with any other password
\* fails, and u has neither passwordResetToken nor passwordResetExpires.
C5_ResetThenLogin ==
    (resp.op = "resetPassword" /\ resp.error = "") =>
        /\ LoginOutcome(users, users[resp.id].email, resp.password)
               = [error |-> "", sub |-> resp.id]
        /\ \A p \in Passwords \ {resp.password} :
               LoginOutcome(users, users[resp.id].email, p) = InvalidCredentials
        /\ users[resp.id].passwordResetToken = Absent
        /\ users[resp.id].passwordResetExpires = Absent

\* C6: after requestPasswordReset(email) for an existing user, no user
\* document holds a plaintext token; the user holds the hash of the token
\* that was mailed, with the expiry the time of issue + 1 hour, the mail
\* went to that user's address, and as long as that hash is stored and the
\* expiry has not come, resetPassword accepts the mailed token for that
\* user.
C6_OnlyHashStoredTokenMailed ==
    /\ \A i \in DOMAIN users, token \in Tokens :
           users[i].passwordResetToken # token
    /\ (resp.op = "forgotPassword" /\ resp.error = "") =>
           /\ users[resp.id].passwordResetToken = Sha256(resp.token)
           /\ \E m \in mailbox :
                  /\ m.token = resp.token
                  /\ m.to = resp.email
                  /\ users[resp.id].passwordResetExpires = <<m.at + ResetTokenTTL>>
    /\ \A m \in mailbox, i \in DOMAIN users :
           users[i].passwordResetToken = Sha256(m.token) =>
               /\ users[i].passwordResetExpires = <<m.at + ResetTokenTTL>>
               /\ now < m.at + ResetTokenTTL =>
                      \A p \in Passwords, salt1, salt2 \in Salts :
                          LET out == ResetPasswordOutcome(users, m.token, p, now, salt1, salt2)
                          IN out.error = "" /\ out.id = i

\* A reset was requested, the mail went out, and the hour has not passed.
C6_Witness ==
    /\ resp.op = "forgotPassword"
    /\ resp.error = ""
    /\ now > 0
    /\ \E m \in mailbox : m.token = resp.token /\ now < m.at + ResetTokenTTL

\* A step that handles POST /users/forgot-password.
HandledForgotPassword == resp'.op = "forgotPassword" /\ now' = now /\ resp' # resp

\* C7: requestPasswordReset(email) fails in two distinct ways: for an email
\* no user has, with "User not found", changing no user and sending no
\* mail; for a user whose mail cannot be sent, with another error, and the
\* hash and the expiry written before the dispatch stay stored.
C7_ResetRequestErrors ==
    [][ HandledForgotPassword =>
          /\ FindUserByEmail(users, resp'.email) = 0 <=> resp'.error = "User not found"
          /\ resp'.error = "User not found" =>
                 users' = users /\ mailbox' = mailbox /\ rng' = rng
          /\ resp'.error \notin {"", "User not found"} =>
                 /\ resp'.error = "Password reset email could not be sent"
                 /\ mailbox' = mailbox
                 /\ users'[resp'.id].passwordResetToken = Sha256(resp'.token)
                 /\ users'[resp'.id].passwordResetExpires = <<now + ResetTokenTTL>>
                 /\ users'[resp'.id].email = resp'.email
      ]_vars

\* The mail of a reset request could not be sent, and the token's hash is
\* stored.
C7_Witness ==
    /\ resp.op = "forgotPassword"
    /\ resp.error = "Password reset email could not be sent"
    /\ users[resp.id].passwordResetToken = Sha256(resp.token)
    /\ \A m \in mailbox : m.token # resp.token

\* C8: getShelf(id, requester) returns the shelf exactly when a shelf has
\* that id and its owner is the requester; when no shelf has the id and when
\* the shelf is another user's, it fails with one and the same error value.
C8_GetShelfOwnershipCollapsed ==
    /\ \A u \in DOMAIN users, s \in RequestShelfIds :
           LET out == GetShelfOutcome(shelves, s, u)
           IN /\ out.error = "" <=> (s \in DOMAIN shelves /\ shelves[s].userId = u)
              /\ out.error = "" => out.shelf = s
              /\ out.error # "" => out = [error |-> "Could not fetch the shelf.", shelf |-> 0]
    /\ (resp.op = "getShelf" /\ resp.error # "") =>
           resp.error = "Could not fetch the shelf." /\ resp.id = 0

\* A user was refused another user's shelf, while some id names no shelf.
C8_Witness ==
    /\ resp.op = "getShelf"
    /\ resp.error # ""
    /\ resp.shelf \in DOMAIN shelves
    /\ shelves[resp.shelf].userId # resp.requester
    /\ \E s \in RequestShelfIds : s \notin DOMAIN shelves

\* C9: no updateShelf, addBookToShelf or removeBookFromShelf request made by
\* a user who is not the shelf's owner succeeds or changes the shelf.
C9_OnlyOwnerMutatesShelf ==
    [][ ( /\ resp'.op \in {"updateShelf", "addBookToShelf", "removeBookFromShelf"}
          /\ resp'.shelf \in DOMAIN shelves
          /\ shelves[resp'.shelf].userId # resp'.requester )
        => (resp'.error # "" /\ shelves' = shelves)
      ]_vars

\* C10: a deleteShelf request for a shelf the requester does not own, or for
\* an id that names no shelf, fails and changes neither the shelves nor any
\* book's shelf reference.
C10_DeleteShelfGateFirst ==
    [][ ( /\ resp'.op = "deleteShelf"
          /\ ~(resp'.shelf \in DOMAIN shelves
               /\ shelves[resp'.shelf].userId = resp'.requester) )
        => (resp'.error # "" /\ shelves' = shelves /\ books' = books)
      ]_vars

\* C11: a deleteShelf request of the owner that succeeds leaves every book
\* that referenced the shelf, however many there were, with a null shelf
\* reference, leaves every other book as it was, removes the shelf, and a
\* getShelf of the owner for that id then fails.
C11_DeleteShelfClearsReferences ==
    [][ ( /\ resp'.op = "deleteShelf"
          /\ resp'.error = ""
          /\ resp'.shelf \in DOMAIN shelves )
        => /\ shelves[resp'.shelf].userId = resp'.requester
           /\ DOMAIN books' = DOMAIN books
           /\ \A b \in DOMAIN books :
                  IF books[b].shelf = resp'.shelf
                  THEN books'[b].shelf = 0
                  ELSE books'[b] = books[b]
           /\ resp'.shelf \notin DOMAIN shelves'
           /\ GetShelfOutcome(shelves', resp'.shelf, resp'.requester).error # ""
      ]_vars

\* A shelf that a book referenced was deleted while another book references
\* another shelf.
C11_Witness ==
    /\ resp.op = "deleteShelf"
    /\ resp.error = ""
    /\ resp.matched >= 1
    /\ resp.shelf \notin DOMAIN shelves
    /\ \E b \in DOMAIN books : books[b].shelf \in DOMAIN shelves

\* C12: the owner of a shelf never changes: whatever createShelf,
\* updateShelf, addBookToShelf or removeBookFromShelf request is handled,
\* every shelf that exists before and after it has the same owner, and a
\* shelf that is created is owned by the requester.
C12_ShelfOwnerImmutable ==
    [][ /\ \A s \in DOMAIN shelves \cap DOMAIN shelves' :
               shelves'[s].userId = shelves[s].userId
        /\ \A s \in DOMAIN shelves' \ DOMAIN shelves :
               shelves'[s].userId = resp'.requester
      ]_vars

\* C13: no stored shelf lists the same book twice, and an updateShelf
\* request whose books list has a duplicate fails and changes no shelf.
C13_NoDuplicateBooks ==
    \A s \in DOMAIN shelves : ~HasDuplicateBooks(shelves[s].books)

\* C14: every book whose shelf reference is not null references a shelf
\* that exists.
C14_BookShelfExists ==
    \A b \in DOMAIN books : books[b].shelf # 0 => books[b].shelf \in DOMAIN shelves

\* The books array of shelf s holds book b.
OnShelf(s, b) == \E i \in DOMAIN shelves[s].books : shelves[s].books[i] = b

\* C15: adding a book to a shelf that already holds it fails and leaves the
\* shelf as it was; removing a book from a shelf that does not hold it raises
\* no error and leaves the shelf as it was; both fail when the shelf does
\* not exist.
C15_AddPresentRemoveAbsent ==
    \A u \in DOMAIN users, s \in RequestShelfIds, b \in BookIds :
        LET add == AddBookToShelfOutcome(shelves, s, b, u)
            rem == RemoveBookFromShelfOutcome(shelves, s, b, u)
        IN /\ s \notin DOMAIN shelves => (add.error # "" /\ rem.error # "")
           /\ (s \in DOMAIN shelves /\ OnShelf(s, b)) =>
                  (add.error # "" /\ add.shelves = shelves)
           /\ (s \in DOMAIN shelves /\ ~OnShelf(s, b)) =>
                  (rem.error = "" /\ rem.shelves = shelves)

\* What the client receives from the gate.
ClientView(out) == [status |-> out.status, message |-> out.message, detail |-> out.detail]

\* C16: whatever makes the gate refuse a request (no token, a malformed
\* token, an expired one, one with an invalid signature, a valid one whose
\* user does not exist), the client receives one and the same Unauthorized
\* response, and the handler does not run.
C16_GateFailuresIdentical ==
    (resp.op = "gate" /\ ~resp.next) =>
        /\ resp.status = 401
        /\ resp.id = 0
        /\ \A token \in PresentedTokens(now) :
               LET out == AuthenticateJWT(resp.variant, token, now, users)
               IN ~out.next =>
                      ClientView(out) = [status |-> resp.status,
                                         message |-> resp.error,
                                         detail |-> resp.detail]

\* C17: a token signed for user u with the server's key at time t, as login
\* signs it, passes the gate at a later time exactly when less than one hour
\* (3600 seconds of the token's clock) has passed since t and user u exists;
\* the user attached to the request is then u; and a step of the gate
\* changes nothing that is stored.
C17_SessionTokenOneHour ==
    /\ [](\A v \in GateVariants, u \in Usernames, i \in IssueTimes :
              i <= now =>
                  LET out == AuthenticateJWT(v, JwtSign(u, JwtSecret, i), now, users)
                  IN /\ out.next <=>
                            /\ JwtSeconds(now) < JwtSeconds(i) + JwtExpiresIn
                            /\ u \in DOMAIN users
                     /\ out.next => (out.user = u /\ out.status = 0))
    /\ [][ (resp'.op = "gate" /\ resp' # resp) =>
              (resp'.next <=> resp'.id # 0) /\ UNCHANGED <<authVars, shelfVars>> ]_vars

\* The gate let a request through whose token was signed for its user some
\* time before.
C17_Witness ==
    /\ resp.op = "gate"
    /\ resp.next
    /\ resp.jwt = JwtSign(resp.id, JwtSecret, now - TickStep)
    /\ resp.id \in DOMAIN users

\* The error of a signup that finds the email or the username in use.
DuplicateIdentity(us) == [error |-> "Email or username is already in use", users |-> us, id |-> 0]

\* C18: no two users share an email or a username, however signups
\* interleave with each other and with profile updates; and a signup for an
\* email or a username that a user already has fails with the error of a
\* duplicate identity and creates no user.
C18_UniqueIdentities ==
    /\ \A i, j \in DOMAIN users :
           i # j => (users[i].email # users[j].email
                     /\ users[i].username # users[j].username)
    /\ \A n \in Usernames, e \in Emails, salt1, salt2 \in Salts :
           (\E i \in DOMAIN users : users[i].email = e \/ users[i].username = n)
               => SignupOutcome(users, n, e, <<1>>, NoPicture, salt1, salt2)
                      = DuplicateIdentity(users)

\* A signup that passed its check while another was in flight reached its
\* save after the other and was refused.
C18_Witness ==
    /\ resp.op = "signup"
    /\ resp.error = "E11000 duplicate key error"
    /\ \E i \in DOMAIN users : users[i].email = resp.email

\* C19: a user that signup has created without roles, settings or picture
\* given is stored with roles <<"user">>, notifications enabled, the weekly
\* email preference, no reset token, no reset expiry, and the default
\* profile picture of the User model.
C19_SignupDefaults ==
    (resp.op = "signup" /\ resp.error = "" /\ resp.picture = NoPicture) =>
        /\ users[resp.id].roles = <<"user">>
        /\ users[resp.id].settings.notificationsEnabled = TRUE
        /\ users[resp.id].settings.emailPreference = "weekly"
        /\ users[resp.id].passwordResetToken = Absent
        /\ users[resp.id].passwordResetExpires = Absent
        /\ users[resp.id].profilePicture = ModelDefaultPicture

\* C20: a forgot-password request, a profile update or a settings update
\* leaves the stored password of every user, the requesting one included,
\* exactly as it was, and creates or removes no user.
C20_PasswordUntouched ==
    [][ resp'.op \in {"forgotPassword", "updateUserProfile", "updateUserSettings"} =>
            /\ DOMAIN users' = DOMAIN users
            /\ \A i \in DOMAIN users : users'[i].password = users[i].password
      ]_vars

\* A forgot-password request saved the token's hash on a user whose
\* profile had been updated before.
C20_Witness ==
    /\ resp.op = "forgotPassword"
    /\ resp.error = ""
    /\ users[resp.id].passwordResetToken = Sha256(resp.token)
    /\ users[resp.id].profilePicture = ClientPicture
    /\ users[resp.id].settings # DefaultSettings

\* query occurs in text as a substring, the case of letters set aside.
IsSubstringIgnoreCase(query, text) ==
    \E p \in 0..(Len(text) - Len(query)) :
        \A i \in DOMAIN query : Lower(query[i]) = Lower(text[p + i])

\* C21: a search for query returns, without an error, exactly the stored
\* books of which query, taken literally, is a case-insensitive substring of
\* the title or of one of the author names.
C21_SearchLiteralSubstring ==
    resp.op = "searchBooks" =>
        /\ resp.error = ""
        /\ resp.found =
               {b \in DOMAIN books :
                   \/ IsSubstringIgnoreCase(resp.query, books[b].title)
                   \/ \E i \in DOMAIN books[b].authors :
                          IsSubstringIgnoreCase(resp.query, books[b].authors[i])}

\* C22: a signup refused for a duplicate identity answers 400, a failed
\* login answers 401 whether the email is unknown or the password wrong, and
\* a getShelf for a shelf that is missing or another user's answers 404.
C22_FailureStatusByClass ==
    /\ (resp.op = "signup" /\ resp.error = "Email or username is already in use")
           => resp.status = 400
    /\ (resp.op = "login" /\ resp.error # "") => resp.status = 401
    /\ (resp.op = "getShelf" /\ resp.error # "") => resp.status = 404

\* C23: once deleteBook(b) has completed, whatever createBook,
\* addBookToShelf and updateBookShelf requests came before, no stored shelf
\* lists b in its books.
C23_DeletedBookOnNoShelf ==
    (resp.op = "deleteBook" /\ resp.error = "") =>
        \A s \in DOMAIN shelves : ~OnShelf(s, resp.book)

\* C24: an authenticated GET /users/profile is handled by the profile
\* handler and answers 200 with the requester's own record without password,
\* passwordResetToken and passwordResetExpires, and GET /books/search is
\* handled by the search handler; neither is handled by the /:id route.
C24_LiteralRoutesNotShadowed ==
    /\ (resp.op = "GET /users" /\ resp.path = <<"profile">>) =>
           /\ resp.handler = "getUserProfile"
           /\ resp.status = 200
           /\ resp.id = resp.requester
           /\ resp.fields \cap {"password", "passwordResetToken",
                                 "passwordResetExpires"} = {}
    /\ (resp.op = "GET /books" /\ resp.path = <<"search">>) =>
           resp.handler = "searchBooks"

\* C25: a createShelf request whose name is empty or absent does not fail:
\* it stores a shelf named "New Shelf" that the requester owns.
C25_CreateShelfDefaultName ==
    (resp.op = "createShelf" /\ resp.name \in {"", NoShelfName}) =>
        /\ resp.error = ""
        /\ resp.shelf \in DOMAIN shelves
        /\ shelves[resp.shelf].name = DefaultShelfName
        /\ shelves[resp.shelf].userId = resp.requester

\* Book b references a shelf that is not stored.
Dangling(b) == books[b].shelf # 0 /\ books[b].shelf \notin DOMAIN shelves

DeletedShelf(s) == s \in 1..nextShelf /\ s \notin DOMAIN shelves

\* C27: an updateBookShelf(b, s) that lands between the two store calls of
\* a deleteShelf(s) succeeds and makes b reference s; the delete of the
\* owner then succeeds as well and leaves b referencing the deleted s; and a
\* reference to a deleted shelf stays as it is through every later step
\* except a request that sets this book's shelf or deletes that shelf id
\* again.
C27_RaceLeavesDanglingReference ==
    /\ [](\A k \in DOMAIN deleting, b \in DOMAIN books :
              LET s == deleting[k].shelf
                  upd == UpdateBookShelfOutcome(books, b, s)
                  del == DeleteShelfRemove(shelves, upd.books, s, deleting[k].requester)
              IN /\ upd.error = ""
                 /\ upd.books[b].shelf = s
                 /\ FindShelfOwned(shelves, s, deleting[k].requester) # 0 =>
                        /\ del.error = ""
                        /\ s \notin DOMAIN del.shelves
                        /\ del.books[b].shelf = s)
    /\ [][ \A b \in DOMAIN books :
              DeletedShelf(books[b].shelf) =>
                  \/ /\ b \in DOMAIN books'
                     /\ books'[b].shelf = books[b].shelf
                     /\ DeletedShelf(books[b].shelf)'
                  \/ /\ resp'.op = "updateBookShelf"
                     /\ resp'.book = b
                     /\ books'[b].shelf = resp'.shelf
                  \/ /\ Len(deleting') > Len(deleting)
                     /\ deleting'[Len(deleting')].shelf = books[b].shelf
                     /\ books'[b].shelf = 0
          ]_vars

\* A deleteShelf of the owner has succeeded and a book references the
\* deleted shelf: an updateBookShelf landed between its two store calls.
C27_Witness ==
    /\ resp.op = "deleteShelf"
    /\ resp.error = ""
    /\ DeletedShelf(resp.shelf)
    /\ \E b \in DOMAIN books : books[b].shelf = resp.shelf
    /\ \E s \in DOMAIN shelves : TRUE

\* C28: an updateUserPassword request whose current password does not
\* verify against the stored hash fails and leaves every user as stored;
\* one that succeeds is followed by a state in which login with the new
\* password succeeds for that user and login with the current password
\* fails.
C28_PasswordChangeThenLogin ==
    [][ resp'.op = "updateUserPassword" =>
          /\ ~BcryptCompare(resp'.current, users[resp'.requester].password) =>
                 (resp'.error # "" /\ users' = users)
          /\ resp'.error = "" =>
                 /\ BcryptCompare(resp'.current, users[resp'.requester].password)
                 /\ LoginOutcome(users', resp'.email, resp'.password)
                        = [error |-> "", sub |-> resp'.requester]
                 /\ resp'.current # resp'.password =>
                        LoginOutcome(users', resp'.email, resp'.current)
                            = InvalidCredentials
      ]_vars

\* C29: however two addBookToShelf calls for the same shelf and the same
\* book interleave, no stored shelf lists the book twice, and a call reports
\* success only if the stored shelf did not list the book already, so that
\* at most one of the two reports success.
C29_ConcurrentAddsOnce ==
    /\ [](\A s \in DOMAIN shelves : ~HasDuplicateBooks(shelves[s].books))
    /\ [][ ( /\ Len(adding') < Len(adding)
              /\ resp'.op = "addBookToShelf"
              /\ resp'.error = "" )
            => ~OnShelf(resp'.shelf, resp'.book)
          ]_vars

\* The tokens resetPassword would accept for user u in this state.
AcceptedTokens(u) ==
    {t \in Tokens : FindUserByResetToken(users, Sha256(t), now) = u}

\* Mail m1 carries a token that a later request for the same address
\* replaced: the generator numbers the tokens in the order of the requests.
Superseded(m1) ==
    \E m2 \in mailbox : m2.to = m1.to /\ m2.token[1] > m1.token[1]

\* C30: at any time resetPassword accepts at most one token for a user, and
\* a mailed token that a later requestPasswordReset for the same user
\* replaced is refused with "Invalid or expired token", also within the hour
\* after it was issued.
C30_OnlyLatestTokenAccepted ==
    /\ \A u \in DOMAIN users : Cardinality(AcceptedTokens(u)) <= 1
    /\ \A m1 \in mailbox :
           Superseded(m1)
           => \A p \in Passwords, salt1, salt2 \in Salts :
                  ResetPasswordOutcome(users, m1.token, p, now, salt1, salt2)
                      = InvalidOrExpiredToken(users)

\* Within the hour of the first of two mailed tokens for one address,
\* resetPassword has just refused the first while the second is accepted.
C30_Witness ==
    /\ resp.op = "resetPassword"
    /\ resp.error = "Invalid or expired token"
    /\ \E m1, m2 \in mailbox :
           /\ m1.token = resp.token
           /\ m2.to = m1.to
           /\ m2.token[1] > m1.token[1]
           /\ now < m1.at + ResetTokenTTL
           /\ AcceptedTokens(FindUserByEmail(users, m2.to)) = {m2.token}

====
